---- MODULE Spec2Model ----
(***************************************************************************)
(* State reconciliation and allocation engine of proxypilot.               *)
(*                                                                         *)
(* The repository holds two snapshots of backend_controller.py:            *)
(*   src/backend_controller.py               the HiLink snapshot           *)
(*   src/src/services/backend_controller.py  the services snapshot         *)
(* Both define the same function names with different bodies.  The         *)
(* definitions below keep the source's names; those of the HiLink          *)
(* snapshot carry the suffix _hilink.  The variable impl says which        *)
(* snapshot is the installed program of a behaviour.                       *)
(***************************************************************************)
EXTENDS Integers, Sequences, FiniteSets, TLC

VARIABLES
    impl,          \* "hilink" or "services": the snapshot that is installed
    configs_file,  \* PROXY_CONFIGS_FILE on disk: [exists, bytes]
    conf_dir,      \* THREPROXY_CONFIG_DIR: device -> rendered <dev>.cfg or NoCfg
    svc_active,    \* systemd units 3proxy@<dev>.service that are active
    ret,           \* the result document of the last invocation (and what it saw)
    budget,        \* invocations the behaviour has left
    tmp_file,      \* write_state_file's temporary file (HiLink): [exists, bytes]
    wr,            \* the writing invocation inside write_state_file
    rd,            \* the reading invocation inside read_state_file
    log_file,      \* LOG_FILE on disk: its lines, oldest first
    log_max,       \* the configured LOG_MAX_ENTRIES
    lg,            \* each invocation's position inside log_message
    log_ctl,       \* the flock on LOG_FILE, the entries made so far, overlap seen
    tunnel_pids_file,  \* TUNNEL_PIDS_FILE on disk: [exists, bytes]
    alive,         \* the process ids that os.kill(pid, 0) finds
    spawned,       \* helper processes spawned so far
    cmd,           \* the invocation inside run_command: the call, the seconds waited
    inv            \* each reconciling invocation: where it is, what it read and returned

\* the activity log: its lines, its configured maximum, each invocation's
\* position inside log_message, and the lock and bookkeeping of the file
LogVars == <<log_file, log_max, lg, log_ctl>>
\* the tunnel table, the process ids that are alive, the helpers spawned so far
TunnelVars == <<tunnel_pids_file, alive, spawned>>
\* the invocations followed step by step through an external command
StepVars == <<cmd, inv>>

vars == <<impl, configs_file, conf_dir, svc_active, ret, budget, tmp_file, wr, rd,
          LogVars, TunnelVars, StepVars>>

----------------------------------------------------------------------------
(* Bounds of the model *)

\* invocations per behaviour when every action of the program is available
MaxOps == 2
\* invocations per behaviour of reconciliation passes only
MaxPasses == 3
\* write_state_file calls per behaviour of the state store
MaxWrites == 3
\* log_message calls per behaviour of the activity log
MaxAppends == 4
\* the configured log maxima range over 1..MaxLogMax
MaxLogMax == 3
\* tunnel invocations per behaviour, and helper processes spawned
MaxTunnelOps == 3
\* invocations per behaviour when every path of main is possible
MaxMainOps == 2
\* external commands followed per behaviour
MaxCalls == 2
\* reconciliations per behaviour when two invocations overlap
MaxOverlapOps == 3
\* calls of the allocator per behaviour
MaxAllocs == 3
MaxSpawn == 2
\* number of ports of each HiLink range and of port pairs of the services
\* range that the model keeps (the source has 1000)
RangeLen == 2
\* devices one reconciliation pass discovers at most
MaxSeen == 2

Devices == {"wwan0", "wwan1", "wwan2"}
\* the order in which json.dump emits the keys of a table
DeviceOrder == <<"wwan0", "wwan1", "wwan2">>
\* outcomes of secrets.token_hex
Usernames == {"user_a1b2", "user_c3d4"}
Passwords == {"9f8e7d6c"}
\* local addresses `ip -j addr` reports
IPs == {"10.0.0.2"}
NoIp == "None"
None == "None"

----------------------------------------------------------------------------
(* Configuration *)

\* src/backend_controller.py:25-28 (range ends narrowed to RangeLen ports)
HTTP_PORT_RANGE_START == 7001
HTTP_PORT_RANGE_END == HTTP_PORT_RANGE_START + RangeLen
SOCKS_PORT_RANGE_START == 8001
SOCKS_PORT_RANGE_END == SOCKS_PORT_RANGE_START + RangeLen
\* src/src/services/backend_controller.py:22-23 (end narrowed to RangeLen pairs)
PORT_RANGE_START == 8000
LOG_MAX_ENTRIES == 200
\* CONFIG['DEFAULT_TIMEOUT'], seconds
DEFAULT_TIMEOUT == 15
PORT_RANGE_END == PORT_RANGE_START + 2 * RangeLen

\* the value a failed scan yields (next(..., None); the services scan raises)
NoPort == 0

----------------------------------------------------------------------------
(* Documents and their JSON text *)

EmptyTable == << >>

HasKey(c, k) == k \in DOMAIN c
\* dict.get(k): None when the key is missing
Get(c, k) == IF k \in DOMAIN c THEN c[k] ELSE None
\* config.get('httpPort') as a number: a missing port reads as NoPort (falsy)
GetPort(c, k) == IF k \in DOMAIN c THEN c[k] ELSE NoPort

\* table[d] = e
Put(table, d, e) ==
    [x \in DOMAIN table \cup {d} |-> IF x = d THEN e ELSE table[x]]

\* entry[k] = v for every (k, v) of updates
Merge(entry, updates) ==
    [k \in DOMAIN entry \cup DOMAIN updates |->
        IF k \in DOMAIN updates THEN updates[k] ELSE entry[k]]

\* the keys a state document can have (interface names, tunnel ids), in the
\* order their members are written
KeyOrder == DeviceOrder \o <<"tunnel_a", "tunnel_b">>

RECURSIVE dump_entries(_, _)
dump_entries(data, i) ==
    IF i > Len(KeyOrder) THEN << >>
    ELSE (IF KeyOrder[i] \in DOMAIN data
            THEN << [tok |-> "member", key |-> KeyOrder[i],
                     val |-> data[KeyOrder[i]]] >>
            ELSE << >>) \o dump_entries(data, i + 1)

\* json.dump(data, f, indent=4): the text, as the tokens written in order
json_dump(data) ==
    << [tok |-> "{"] >> \o dump_entries(data, 1) \o << [tok |-> "}"] >>

\* json.load succeeds on a complete object only
json_ok(bytes) ==
    /\ Len(bytes) >= 2
    /\ bytes[1].tok = "{"
    /\ bytes[Len(bytes)].tok = "}"
    /\ \A i \in 2..(Len(bytes) - 1) : bytes[i].tok = "member"

\* a parse that gives every key the value of the first member
json_load_first(bytes) ==
    [d \in {bytes[i].key : i \in 2..(Len(bytes) - 1)} |-> bytes[2].val]

json_load(bytes) ==
    LET members == {i \in 2..(Len(bytes) - 1) : TRUE}
        keys == {bytes[i].key : i \in members}
    IN [d \in keys |->
          bytes[CHOOSE i \in members :
                    /\ bytes[i].key = d
                    /\ \A j \in members : bytes[j].key = d => j <= i].val]

NoBytes == << >>
AbsentFile == [exists |-> FALSE, bytes |-> NoBytes]

----------------------------------------------------------------------------
(* State store *)

\* the document read_state_file returns for a file, given the default
read_state_file(file, default_value) ==
    IF ~file.exists THEN default_value
    ELSE IF json_ok(file.bytes) THEN json_load(file.bytes)
    ELSE default_value

\* the file after a completed write_state_file(file_path, data)
write_state_file(data) == [exists |-> TRUE, bytes |-> json_dump(data)]

----------------------------------------------------------------------------
(* Allocator *)

AllocResult(config, created) ==
    [raised |-> FALSE, config |-> config, created |-> created]
\* raise Exception("No available ports ...")
AllocRaised == [raised |-> TRUE, config |-> EmptyTable, created |-> FALSE]

\* a scan that hands out the range's end value instead of finding nothing
first_unused_past_end(p, end, used) ==
    IF \A q \in p..(end - 1) : q \in used THEN end
    ELSE CHOOSE q \in p..(end - 1) : q \notin used /\ \A r \in p..(q - 1) : r \in used

\* HiLink: next((p for p in range(start, end) if p not in used), None)
RECURSIVE first_unused(_, _, _)
first_unused(p, end, used) ==
    IF p >= end THEN NoPort
    ELSE IF p \notin used THEN p
    ELSE first_unused(p + 1, end, used)

\* an allocator without the membership test: it generates on every call
get_or_create_proxy_config_hilink_always(interface_name, all_configs, username, password) ==
    AllocResult([httpPort |-> first_unused(HTTP_PORT_RANGE_START, HTTP_PORT_RANGE_END, {}),
                 socksPort |-> first_unused(SOCKS_PORT_RANGE_START, SOCKS_PORT_RANGE_END, {}),
                 username |-> username, password |-> password, customName |-> None],
                TRUE)

get_or_create_proxy_config_hilink(interface_name, all_configs, username, password) ==
    IF interface_name \in DOMAIN all_configs
    THEN AllocResult(all_configs[interface_name], FALSE)
    ELSE
      LET used_http_ports == {GetPort(all_configs[d], "httpPort") : d \in DOMAIN all_configs}
          used_socks_ports == {GetPort(all_configs[d], "socksPort") : d \in DOMAIN all_configs}
          http_port == first_unused(HTTP_PORT_RANGE_START, HTTP_PORT_RANGE_END, used_http_ports)
          socks_port == first_unused(SOCKS_PORT_RANGE_START, SOCKS_PORT_RANGE_END, used_socks_ports)
      IN IF http_port = NoPort \/ socks_port = NoPort THEN AllocRaised
         ELSE AllocResult([httpPort |-> http_port, socksPort |-> socks_port,
                           username |-> username, password |-> password,
                           customName |-> None], TRUE)

\* a scan that takes its first candidate without looking at used_ports
scan_pair_blind(new_http_port, used_ports) == new_http_port

\* services: the while loop over port pairs; NoPort when it raises
RECURSIVE scan_pair(_, _)
scan_pair(new_http_port, used_ports) ==
    IF new_http_port \in used_ports \/ (new_http_port + 1) \in used_ports
    THEN IF (new_http_port + 2) + 1 > PORT_RANGE_END THEN NoPort
         ELSE scan_pair(new_http_port + 2, used_ports)
    ELSE new_http_port

\* an allocator that generates a new pair for a device it already knows
get_or_create_proxy_config_regen(interface_name, all_configs, username, password) ==
    LET used_ports ==
            UNION {{all_configs[d][k] :
                      k \in {"httpPort", "socksPort"} \cap DOMAIN all_configs[d]}
                   : d \in DOMAIN all_configs}
        new_http_port == scan_pair(PORT_RANGE_START, used_ports)
    IN IF new_http_port = NoPort THEN AllocRaised
       ELSE AllocResult([httpPort |-> new_http_port, socksPort |-> new_http_port + 1,
                         username |-> username, password |-> password,
                         type |-> "Proxy", bindIp |-> None, customName |-> None], TRUE)

get_or_create_proxy_config(interface_name, all_configs, username, password) ==
    IF /\ interface_name \in DOMAIN all_configs
       /\ HasKey(all_configs[interface_name], "httpPort")
       /\ HasKey(all_configs[interface_name], "socksPort")
    THEN AllocResult(all_configs[interface_name], FALSE)
    ELSE
      LET used_ports ==
              UNION {{all_configs[d][k] :
                        k \in {"httpPort", "socksPort"} \cap DOMAIN all_configs[d]}
                     : d \in DOMAIN all_configs}
          new_http_port == scan_pair(PORT_RANGE_START, used_ports)
      IN IF new_http_port = NoPort THEN AllocRaised
         ELSE AllocResult([httpPort |-> new_http_port, socksPort |-> new_http_port + 1,
                           username |-> username, password |-> password,
                           type |-> "Proxy", bindIp |-> None, customName |-> None], TRUE)

----------------------------------------------------------------------------
(* Config renderer *)

NoText == [mode |-> "absent"]
NoCfg == [exists |-> FALSE, text |-> NoText]

\* Python truthiness of a string-or-None value
Truthy(v) == v # None /\ v # ""

\* HiLink: the joined lines, as the directives they carry
generate_3proxy_config_content_hilink(config, egress_ip) ==
    IF \/ egress_ip = NoIp \/ egress_ip = ""
       \/ GetPort(config, "httpPort") = NoPort
       \/ GetPort(config, "socksPort") = NoPort
    THEN NoText
    ELSE LET username == Get(config, "username")
             password == Get(config, "password")
             auth == Truthy(username) /\ Truthy(password)
         IN [mode |-> IF auth THEN "auth strong" ELSE "auth none",
             users |-> IF auth THEN <<username, "CL", password>> ELSE << >>,
             allow |-> IF auth THEN <<username>> ELSE << >>,
             proxy |-> [flags |-> IF auth THEN "-n" ELSE "-n -a",
                        p |-> config["httpPort"], i |-> "0.0.0.0", e |-> egress_ip],
             socks |-> [p |-> config["socksPort"], i |-> "0.0.0.0", e |-> egress_ip],
             flush |-> TRUE]

\* services: the f-string, as the directives it carries
generate_3proxy_config_content(config, ip_address) ==
    IF \/ ip_address = NoIp \/ ip_address = ""
       \/ GetPort(config, "httpPort") = NoPort
       \/ GetPort(config, "socksPort") = NoPort
    THEN NoText
    ELSE LET is_authenticated ==
                 Truthy(Get(config, "username")) /\ Truthy(Get(config, "password"))
         IN [mode |-> "daemon",
             users |-> IF is_authenticated
                         THEN <<config["username"], "CL", config["password"]>> ELSE << >>,
             allow |-> IF is_authenticated THEN <<config["username"]>> ELSE << >>,
             proxy |-> [flags |-> "", p |-> config["httpPort"],
                        i |-> ip_address, e |-> ip_address],
             socks |-> [p |-> config["socksPort"], i |-> ip_address, e |-> ip_address],
             flush |-> FALSE]

\* a write that leaves an empty file when there is no content
WriteConf_empty(interface_name, config_content, dir) ==
    [raised |-> FALSE,
     conf_dir |-> [dir EXCEPT ![interface_name] = [exists |-> TRUE, text |-> config_content]]]

\* config_file_path.write_text(config_content), or nothing for no content
WriteConf(interface_name, config_content, dir) ==
    IF config_content = NoText THEN [raised |-> FALSE, conf_dir |-> dir]
    ELSE [raised |-> FALSE,
          conf_dir |-> [dir EXCEPT ![interface_name] =
                           [exists |-> TRUE, text |-> config_content]]]

\* what write_3proxy_config_file leaves: [raised, conf_dir]
\* all_configs is what its read_state_file(PROXY_CONFIGS_FILE) returned
write_3proxy_config_file_hilink(interface_name, egress_ip, all_configs, dir) ==
    IF interface_name \notin DOMAIN all_configs \/ all_configs[interface_name] = EmptyTable
    THEN [raised |-> TRUE, conf_dir |-> dir]
    ELSE WriteConf(interface_name,
                   generate_3proxy_config_content_hilink(all_configs[interface_name],
                                                         egress_ip),
                   dir)

write_3proxy_config_file(interface_name, ip_address, all_configs, dir) ==
    IF interface_name \notin DOMAIN all_configs \/ all_configs[interface_name] = EmptyTable
    THEN [raised |-> TRUE, conf_dir |-> dir]
    ELSE WriteConf(interface_name,
                   generate_3proxy_config_content(all_configs[interface_name], ip_address),
                   dir)

----------------------------------------------------------------------------
(* Service controller: status *)

\* HiLink: `systemctl is-active --quiet` prints nothing, whatever the unit's
\* state, and run_command(check=False) returns the stripped stdout
is_active_stdout(active) == ""

get_proxy_status_hilink(interface_name, active) ==
    IF is_active_stdout(interface_name \in active) = "active" THEN "running" ELSE "stopped"

\* services: run_command(check=True) turns a non-zero exit into a plain
\* Exception, which get_proxy_status answers with 'error'
get_proxy_status(interface_name, modem_status, active) ==
    IF modem_status # "connected" THEN "stopped"
    ELSE IF interface_name \in active THEN "running"
    ELSE "error"

----------------------------------------------------------------------------
(* Discovery (external): what `ip -j addr` shows of the modem interfaces *)

\* get_modems_from_ip_addr: one modem record of an interface
Modem(ifname, up, ip_address) ==
    [interfaceName |-> ifname,
     status |-> IF up /\ ip_address # NoIp THEN "connected" ELSE "disconnected",
     ipAddress |-> ip_address]

ModemsOf(d) == {Modem(d, up, ip) : up \in BOOLEAN, ip \in IPs \cup {NoIp}}

\* position of an interface in the kernel's interface list
IfIndex(d) == CHOOSE i \in 1..Len(DeviceOrder) : DeviceOrder[i] = d

\* the status lists a pass can see: up to MaxSeen distinct interfaces, in the
\* order of the kernel's interface list
StatusLists ==
    UNION {{sl \in [1..n -> UNION {ModemsOf(d) : d \in Devices}] :
              \A i, j \in 1..n :
                 i < j => IfIndex(sl[i].interfaceName) < IfIndex(sl[j].interfaceName)}
           : n \in 0..MaxSeen}

Creds == [username : Usernames, password : Passwords]
\* the token_hex draws of an invocation that generates k allocations, in order
CredLists(k) == [1..k -> Creds]
NoDraws == {[i \in {1} |-> CHOOSE c \in Creds : TRUE]}

Names(status_list) == {status_list[i].interfaceName : i \in 1..Len(status_list)}

----------------------------------------------------------------------------
(* Results of the handlers *)

\* what an invocation leaves and answers: the files, the units, the result
\* document (success, error) and, for the properties, whether an allocation
\* was generated (created), the modems of the data payload (data) and
\* whether a systemctl action was issued (issued)
Outcome(success, error, file, dir, active, created, data, issued) ==
    [success |-> success, error |-> error, file |-> file, conf_dir |-> dir,
     active |-> active, created |-> created, data |-> data, issued |-> issued]

----------------------------------------------------------------------------
(* Reconciliation, services snapshot *)

\* The invocation's local state st: proxy_configs, configs_changed, the
\* configuration directory, the interfaces that got a new allocation, and
\* whether an exception left the loop.

\* lines 316-317, after write_3proxy_config_file returned or raised
recon_rendered(st, w) ==
    [st EXCEPT !.conf_dir = w.conf_dir, !.raised = w.raised,
               !.error = IF w.raised THEN "Failed to write proxy config" ELSE ""]

\* lines 316-317.  read_state_file's default_value={} is one dict object per
\* process: when the file cannot be read, proxy_configs IS that object, and
\* the read inside write_3proxy_config_file returns it as mutated so far.
recon_render(modem, st, file) ==
    IF modem.status = "connected" /\ modem.ipAddress # NoIp
    THEN recon_rendered(st,
             write_3proxy_config_file(
                 modem.interfaceName, modem.ipAddress,
                 read_state_file(file, IF file.exists /\ json_ok(file.bytes)
                                       THEN EmptyTable ELSE st.proxy_configs),
                 st.conf_dir))
    ELSE st

\* lines 311-314
recon_bind(modem, st, file) ==
    IF /\ modem.ipAddress # NoIp
       /\ Get(st.proxy_configs[modem.interfaceName], "bindIp") # modem.ipAddress
    THEN recon_render(modem,
             [st EXCEPT !.proxy_configs =
                            Put(@, modem.interfaceName,
                                Merge(@[modem.interfaceName],
                                      [bindIp |-> modem.ipAddress])),
                        !.configs_changed = TRUE],
             file)
    ELSE recon_render(modem, st, file)

\* lines 300-303, r is what get_or_create_proxy_config returned
recon_alloc(modem, st, file, r) ==
    IF r.raised THEN [st EXCEPT !.raised = TRUE, !.error = "No available ports"]
    ELSE IF r.created
    THEN recon_bind(modem,
             [st EXCEPT !.proxy_configs = Put(@, modem.interfaceName, r.config),
                        !.configs_changed = TRUE,
                        !.created = @ \cup {modem.interfaceName}],
             file)
    ELSE recon_bind(modem, st, file)

\* one iteration of the for loop (lines 298-317); draw is its token_hex draw
recon_modem(modem, st, file, draw) ==
    recon_alloc(modem, st, file,
                get_or_create_proxy_config(modem.interfaceName, st.proxy_configs,
                                           draw.username, draw.password))

NextDraw(st, creds) ==
    creds[IF Cardinality(st.created) < Len(creds)
          THEN Cardinality(st.created) + 1 ELSE Len(creds)]

\* the for loop from modem i on
RECURSIVE recon_loop(_, _, _, _, _)
recon_loop(status_list, i, st, file, creds) ==
    IF i > Len(status_list) \/ st.raised THEN st
    ELSE recon_loop(status_list, i + 1,
                    recon_modem(status_list[i], st, file, NextDraw(st, creds)),
                    file, creds)

\* lines 319-325
recon_result(status_list, st, file, active) ==
    IF st.raised
    THEN Outcome(FALSE, st.error, file, st.conf_dir, active, {}, << >>, FALSE)
    ELSE Outcome(TRUE, "",
                 IF st.configs_changed THEN write_state_file(st.proxy_configs) ELSE file,
                 st.conf_dir, active, st.created, status_list, FALSE)

\* get_all_modem_statuses()
get_all_modem_statuses(status_list, creds, file, dir, active) ==
    IF Len(status_list) = 0
    THEN Outcome(TRUE, "", file, dir, active, {}, status_list, FALSE)
    ELSE recon_result(status_list,
             recon_loop(status_list, 1,
                        [proxy_configs |-> read_state_file(file, EmptyTable),
                         configs_changed |-> FALSE, conf_dir |-> dir, created |-> {},
                         raised |-> FALSE, error |-> ""],
                        file, creds),
             file, active)

----------------------------------------------------------------------------
(* Reconciliation, HiLink snapshot *)

\* lines 235-265, after write_3proxy_config_file returned or raised
recon_rendered_hilink(file, active, created, w) ==
    Outcome(~w.raised, IF w.raised THEN "No configuration found" ELSE "",
            file, w.conf_dir, active, created, << >>, FALSE)

\* lines 235-237; file is PROXY_CONFIGS_FILE as lines 231-233 left it
recon_render_hilink(interface_name, modem_status, modem_ip, file, dir, active, created) ==
    IF /\ modem_status = "connected"
       /\ modem_ip # NoIp
       /\ get_proxy_status_hilink(interface_name, active) = "stopped"
    THEN recon_rendered_hilink(file, active, created,
             write_3proxy_config_file_hilink(interface_name, modem_ip,
                                             read_state_file(file, EmptyTable), dir))
    ELSE Outcome(TRUE, "", file, dir, active, created, << >>, FALSE)

\* lines 230-233, r is what get_or_create_proxy_config returned
recon_alloc_hilink(interface_name, modem_status, modem_ip, proxy_configs, file, dir, active, r) ==
    IF r.raised
    THEN Outcome(FALSE, "No available ports", file, dir, active, {}, << >>, FALSE)
    ELSE IF r.created
    THEN recon_render_hilink(interface_name, modem_status, modem_ip,
             write_state_file(Put(proxy_configs, interface_name, r.config)),
             dir, active, {interface_name})
    ELSE recon_render_hilink(interface_name, modem_status, modem_ip, file, dir, active, {})

\* lines 229-230
recon_read_hilink(interface_name, modem_status, modem_ip, cred, proxy_configs, file, dir, active) ==
    recon_alloc_hilink(interface_name, modem_status, modem_ip, proxy_configs, file, dir,
        active,
        get_or_create_proxy_config_hilink(interface_name, proxy_configs,
                                          cred.username, cred.password))

\* get_all_modem_statuses() for the interface name the gateway setting gives;
\* hilink_ok is whether the modem's web interface answered
get_all_modem_statuses_hilink(interface_name, hilink_ok, modem_status, modem_ip, cred, file, dir, active) ==
    IF ~hilink_ok
    THEN Outcome(FALSE, "Could not connect to modem", file, dir, active, {}, << >>, FALSE)
    ELSE recon_read_hilink(interface_name, modem_status, modem_ip, cred,
                           read_state_file(file, EmptyTable), file, dir, active)

----------------------------------------------------------------------------
(* Service controller: actions (services snapshot) *)

\* a proxy_action that never looks for the rendered configuration
NeedsFallback_never(action, interface_name, dir) == FALSE

NeedsFallback(action, interface_name, dir) ==
    ~dir[interface_name].exists /\ action \in {"start", "restart"}

\* the unit states after `systemctl <action> 3proxy@<interface_name>.service`
systemctl(action, interface_name, active) ==
    IF action = "stop" THEN active \ {interface_name} ELSE active \cup {interface_name}

\* lines 341-347: the control command; cmd_ok is whether it exits zero
control(action, interface_name, cmd_ok, file, dir, active) ==
    IF cmd_ok
    THEN Outcome(TRUE, "", file, dir, systemctl(action, interface_name, active),
                 {}, << >>, TRUE)
    ELSE Outcome(FALSE, "Command failed", file, dir, active, {}, << >>, TRUE)

\* line 339 and on, w is what write_3proxy_config_file returned or raised
fallback_written(action, interface_name, cmd_ok, file, active, w) ==
    IF w.raised
    THEN Outcome(FALSE, "Failed to write proxy config", file, w.conf_dir, active,
                 {}, << >>, FALSE)
    ELSE control(action, interface_name, cmd_ok, file, w.conf_dir, active)

ModemOf(data, interface_name) ==
    data[CHOOSE i \in 1..Len(data) : data[i].interfaceName = interface_name]

\* lines 334-339, s is what get_all_modem_statuses returned
fallback(action, interface_name, cmd_ok, active, s) ==
    IF ~s.success
    THEN Outcome(FALSE, "Could not get modem statuses to write fallback config.",
                 s.file, s.conf_dir, active, {}, << >>, FALSE)
    ELSE IF \/ interface_name \notin Names(s.data)
            \/ ModemOf(s.data, interface_name).ipAddress = NoIp
    THEN Outcome(FALSE, "Modem is not connected or has no IP address.",
                 s.file, s.conf_dir, active, {}, << >>, FALSE)
    ELSE fallback_written(action, interface_name, cmd_ok, s.file, active,
             write_3proxy_config_file(interface_name,
                                      ModemOf(s.data, interface_name).ipAddress,
                                      read_state_file(s.file, EmptyTable), s.conf_dir))

\* proxy_action(action, interface_name); status_list and creds are what the
\* fallback reconciliation discovers and draws
proxy_action(action, interface_name, status_list, creds, cmd_ok, file, dir, active) ==
    IF NeedsFallback(action, interface_name, dir)
    THEN fallback(action, interface_name, cmd_ok, active,
                  get_all_modem_statuses(status_list, creds, file, dir, active))
    ELSE control(action, interface_name, cmd_ok, file, dir, active)

----------------------------------------------------------------------------
(* Explicit update (services snapshot) *)

\* the update documents an operator sends
UpdateDocs ==
    { [customName |-> "lab"],
      [username |-> "operator", password |-> "s3cret"],
      [httpPort |-> PORT_RANGE_START + 1] }

IsCredentialUpdate(updates) == HasKey(updates, "username") \/ HasKey(updates, "password")

WillRestart(interface_name, updates, active) ==
    /\ IsCredentialUpdate(updates)
    /\ get_proxy_status(interface_name, "connected", active) = "running"

\* lines 656-659: the restart's own result is dropped
update_restarted(r) ==
    Outcome(TRUE, "", r.file, r.conf_dir, r.active, {}, << >>, r.issued)

\* lines 651-656, file is PROXY_CONFIGS_FILE as write_state_file left it
update_written(interface_name, updates, status_list, creds, cmd_ok, file, dir, active) ==
    IF WillRestart(interface_name, updates, active)
    THEN update_restarted(proxy_action("restart", interface_name, status_list, creds,
                                       cmd_ok, file, dir, active))
    ELSE Outcome(TRUE, "", file, dir, active, {}, << >>, FALSE)

\* lines 647-650, all_configs is what read_state_file returned
update_entry(interface_name, updates, all_configs) ==
    Put(all_configs, interface_name,
        Merge(IF interface_name \in DOMAIN all_configs
              THEN all_configs[interface_name] ELSE EmptyTable,
              updates))

\* update_proxy_config(interface_name, updates_json)
update_proxy_config(interface_name, updates, status_list, creds, cmd_ok, file, dir, active) ==
    update_written(interface_name, updates, status_list, creds, cmd_ok,
        write_state_file(update_entry(interface_name, updates,
                                      read_state_file(file, EmptyTable))),
        dir, active)

----------------------------------------------------------------------------
(* The state machine: one action per invocation of the program *)

\* no invocation is inside write_state_file / read_state_file
WriterIdle == [pc |-> "idle", data |-> EmptyTable, prev |-> EmptyTable, n |-> 0]
ReaderIdle == [pc |-> "idle", result |-> EmptyTable, prev |-> EmptyTable,
               new |-> EmptyTable, at |-> "idle"]

\* what an invocation leaves behind: the document it printed (success, error,
\* message), how many documents it printed and its exit code, and what it saw:
\* seen are the devices discovered or the tunnel records probed, active the
\* tunnel ids reported active
Result(op, success, error, seen, created, dev, issued, message, active, printed, exit_code) ==
    [op |-> op, success |-> success, error |-> error, seen |-> seen,
     created |-> created, dev |-> dev, issued |-> issued, message |-> message,
     active |-> active, printed |-> printed, exit_code |-> exit_code]

\* the invocations that may be inside log_message at the same time
LogProcs == {"p1", "p2"}
LoggerIdle == [pc |-> "idle", lines |-> << >>, log_entry |-> 0]

\* an invocation that is not between a read and a write: nothing discovered,
\* read or returned; op, dev and file are the tunnel operation it runs, its
\* tunnel id and the tunnel table file as it read it
InvIdle ==
    [pc |-> "idle", status_list |-> << >>, proxy_configs |-> EmptyTable,
     returned |-> EmptyTable, op |-> None, dev |-> None, file |-> AbsentFile]

\* no external command is running
NoCall == [command |-> None, timeout |-> 0, check |-> TRUE, suppress_error |-> FALSE]
CmdIdle ==
    [pc |-> "idle", call |-> NoCall, elapsed |-> 0, ending |-> None, raised |-> FALSE,
     value |-> ""]

\* the state after installation: no state file, no rendered configuration
Fresh ==
    /\ impl \in {"hilink", "services"}
    /\ configs_file = AbsentFile
    /\ conf_dir = [d \in Devices |-> NoCfg]
    /\ svc_active = {}
    /\ ret = Result("none", TRUE, "", {}, {}, None, FALSE, "", {}, 0, 0)
    /\ tmp_file = AbsentFile
    /\ wr = WriterIdle
    /\ rd = ReaderIdle
    /\ log_file = << >>
    /\ lg = [p \in LogProcs |-> LoggerIdle]
    /\ log_ctl = [lock |-> None, seq |-> 0, overlapped |-> FALSE]
    /\ tunnel_pids_file = AbsentFile
    /\ alive = {}
    /\ spawned = 0
    /\ cmd = CmdIdle
    /\ inv = [p \in LogProcs |-> InvIdle]

Init == Fresh /\ budget = MaxOps /\ log_max = LOG_MAX_ENTRIES

StoreIdle == UNCHANGED <<tmp_file, wr, rd>>

\* the invocation ends: r is what its handler left and answered
Returns(op, r, seen, dev) ==
    /\ configs_file' = r.file
    /\ conf_dir' = r.conf_dir
    /\ svc_active' = r.active
    /\ ret' = Result(op, r.success, r.error, seen, r.created, dev, r.issued, "", {}, 1, 0)
    /\ budget' = budget - 1
    /\ UNCHANGED impl
    /\ StoreIdle
    /\ UNCHANGED <<LogVars, TunnelVars, StepVars>>

\* the token_hex draws an invocation makes: one per interface of the status
\* list that has no allocation yet (none when nothing is generated)
Unallocated(status_list, table) ==
    {i \in 1..Len(status_list) :
       ~ /\ status_list[i].interfaceName \in DOMAIN table
         /\ HasKey(table[status_list[i].interfaceName], "httpPort")
         /\ HasKey(table[status_list[i].interfaceName], "socksPort")}

Draws(status_list, file) ==
    IF Unallocated(status_list, read_state_file(file, EmptyTable)) = {} THEN NoDraws
    ELSE CredLists(Cardinality(Unallocated(status_list,
                                           read_state_file(file, EmptyTable))))

Draws_hilink(interface_name, hilink_ok, file) ==
    IF hilink_ok /\ interface_name \notin DOMAIN read_state_file(file, EmptyTable)
    THEN Creds ELSE {CHOOSE c \in Creds : TRUE}

\* action get_all_modem_statuses, HiLink snapshot
Reconcile_hilink ==
    /\ impl = "hilink"
    /\ budget > 0
    /\ \E interface_name \in Devices, hilink_ok \in BOOLEAN,
          modem_status \in {"connected", "disconnected"},
          modem_ip \in IPs \cup {NoIp} :
       \E cred \in Draws_hilink(interface_name, hilink_ok, configs_file) :
          Returns("get_all_modem_statuses",
                  get_all_modem_statuses_hilink(interface_name, hilink_ok, modem_status,
                      modem_ip, cred, configs_file, conf_dir, svc_active),
                  IF hilink_ok THEN {interface_name} ELSE {}, interface_name)

\* action get_all_modem_statuses, services snapshot
Reconcile ==
    /\ impl = "services"
    /\ budget > 0
    /\ \E status_list \in StatusLists :
       \E creds \in Draws(status_list, configs_file) :
          Returns("get_all_modem_statuses",
                  get_all_modem_statuses(status_list, creds, configs_file, conf_dir,
                                         svc_active),
                  Names(status_list), None)

\* whether proxy_action gets as far as its systemctl command
Issues(action, interface_name, status_list, creds) ==
    proxy_action(action, interface_name, status_list, creds, TRUE,
                 configs_file, conf_dir, svc_active).issued

\* actions start, stop, restart
ProxyAction ==
    /\ impl = "services"
    /\ budget > 0
    /\ \E action \in {"start", "stop", "restart"}, interface_name \in Devices :
       \E status_list \in IF NeedsFallback(action, interface_name, conf_dir)
                          THEN StatusLists ELSE {<< >>} :
       \E creds \in Draws(status_list, configs_file) :
       \E cmd_ok \in IF Issues(action, interface_name, status_list, creds)
                     THEN BOOLEAN ELSE {TRUE} :
          Returns(action,
                  proxy_action(action, interface_name, status_list, creds, cmd_ok,
                               configs_file, conf_dir, svc_active),
                  {}, interface_name)

\* action update_proxy_config
UpdateProxyConfig ==
    /\ impl = "services"
    /\ budget > 0
    /\ \E interface_name \in Devices, updates \in UpdateDocs :
       \E status_list \in IF /\ WillRestart(interface_name, updates, svc_active)
                             /\ NeedsFallback("restart", interface_name, conf_dir)
                          THEN StatusLists ELSE {<< >>} :
       \E creds \in IF Len(status_list) = 0 THEN NoDraws
                    ELSE CredLists(Len(status_list)) :
       \E cmd_ok \in IF WillRestart(interface_name, updates, svc_active)
                     THEN BOOLEAN ELSE {TRUE} :
          Returns("update_proxy_config",
                  update_proxy_config(interface_name, updates, status_list, creds,
                                      cmd_ok, configs_file, conf_dir, svc_active),
                  {}, interface_name)

Next == Reconcile_hilink \/ Reconcile \/ ProxyAction \/ UpdateProxyConfig

Spec == Init /\ [][Next]_vars

\* reconciliation passes only
NextRecon == Reconcile_hilink \/ Reconcile

InitRecon == Fresh /\ budget = MaxPasses /\ log_max = LOG_MAX_ENTRIES

SpecRecon == InitRecon /\ [][NextRecon]_vars

----------------------------------------------------------------------------
(* The state store, step by step: one invocation inside write_state_file    *)
(* while another calls read_state_file on the same key                      *)

\* the documents written: allocation tables as reconciliation leaves them
Entry(http_port, socks_port) ==
    [httpPort |-> http_port, socksPort |-> socks_port, username |-> "user_a1b2",
     password |-> "9f8e7d6c", customName |-> None]

Docs ==
    { [d \in {"wwan0"} |-> Entry(HTTP_PORT_RANGE_START, SOCKS_PORT_RANGE_START)],
      [d \in {"wwan0", "wwan1"} |->
          IF d = "wwan0" THEN Entry(HTTP_PORT_RANGE_START, SOCKS_PORT_RANGE_START)
          ELSE Entry(HTTP_PORT_RANGE_START + 1, SOCKS_PORT_RANGE_START + 1)],
      [d \in {"wwan2"} |-> [customName |-> "lab"]] }

\* the document of the last write_state_file that ran to its end
Committed == IF wr.pc = "idle" THEN wr.data ELSE wr.prev

\* f.write of the next piece of the text
f_write(file, data, n) == [exists |-> TRUE, bytes |-> Append(file.bytes, json_dump(data)[n + 1])]

\* open(path, 'w'): the file exists and is empty
Truncated == [exists |-> TRUE, bytes |-> NoBytes]

\* open(..., 'w'): the services snapshot opens file_path itself, the HiLink
\* snapshot opens the temporary file beside it
WriteOpen ==
    /\ wr.pc \in {"idle", "crashed"}
    /\ budget > 0
    /\ \E data \in Docs :
         wr' = [pc |-> "dump", data |-> data, prev |-> Committed, n |-> 0]
    /\ IF impl = "services"
       THEN configs_file' = Truncated /\ UNCHANGED tmp_file
       ELSE tmp_file' = Truncated /\ UNCHANGED configs_file
    /\ budget' = budget - 1
    /\ UNCHANGED <<impl, conf_dir, svc_active, ret, rd>>
    /\ UNCHANGED <<LogVars, TunnelVars, StepVars>>

\* json.dump(data, f, indent=4): the text reaches the open file piece by piece
WriteChunk ==
    /\ wr.pc = "dump"
    /\ wr.n < Len(json_dump(wr.data))
    /\ wr' = [wr EXCEPT !.n = @ + 1]
    /\ IF impl = "services"
       THEN configs_file' = f_write(configs_file, wr.data, wr.n) /\ UNCHANGED tmp_file
       ELSE tmp_file' = f_write(tmp_file, wr.data, wr.n) /\ UNCHANGED configs_file
    /\ UNCHANGED <<impl, conf_dir, svc_active, ret, budget, rd>>
    /\ UNCHANGED <<LogVars, TunnelVars, StepVars>>

\* the with block ends: the services snapshot's write is complete
WriteClose ==
    /\ wr.pc = "dump"
    /\ wr.n = Len(json_dump(wr.data))
    /\ wr' = [wr EXCEPT !.pc = IF impl = "services" THEN "idle" ELSE "replace"]
    /\ UNCHANGED <<impl, configs_file, conf_dir, svc_active, ret, budget, tmp_file, rd>>
    /\ UNCHANGED <<LogVars, TunnelVars, StepVars>>

\* os.replace(temp_file_path, file_path) (HiLink snapshot)
WriteReplace ==
    /\ wr.pc = "replace"
    /\ configs_file' = tmp_file
    /\ tmp_file' = AbsentFile
    /\ wr' = [wr EXCEPT !.pc = "idle"]
    /\ UNCHANGED <<impl, conf_dir, svc_active, ret, budget, rd>>
    /\ UNCHANGED <<LogVars, TunnelVars, StepVars>>

\* the writing process dies inside write_state_file: before the text is
\* complete, or (HiLink) before os.replace.  What it wrote stays on disk.
Crash ==
    /\ \/ wr.pc = "replace"
       \/ wr.pc = "dump" /\ (impl = "hilink" \/ wr.n < Len(json_dump(wr.data)))
    /\ wr' = [wr EXCEPT !.pc = "crashed"]
    /\ UNCHANGED <<impl, configs_file, conf_dir, svc_active, ret, budget, tmp_file, rd>>
    /\ UNCHANGED <<LogVars, TunnelVars, StepVars>>

\* read_state_file(file_path) by another invocation: json.load reads the
\* whole file as it is at that moment.  prev and new are the documents of
\* the last completed write and of the write in progress, at is where the
\* writer stands.
Read ==
    /\ rd' = [pc |-> "done", result |-> read_state_file(configs_file, EmptyTable),
              prev |-> Committed, new |-> wr.data, at |-> wr.pc]
    /\ UNCHANGED <<impl, configs_file, conf_dir, svc_active, ret, budget, tmp_file, wr>>
    /\ UNCHANGED <<LogVars, TunnelVars, StepVars>>

NextStore == WriteOpen \/ WriteChunk \/ WriteClose \/ WriteReplace \/ Crash \/ Read

InitStore == Fresh /\ budget = MaxWrites /\ log_max = LOG_MAX_ENTRIES

SpecStore == InitStore /\ [][NextStore]_vars

----------------------------------------------------------------------------
(* The activity log, step by step: invocations inside log_message *)

\* services: while len(lines) >= LOG_MAX_ENTRIES: lines.pop(0)
RECURSIVE pop_oldest(_, _)
pop_oldest(lines, max) ==
    IF Len(lines) >= max THEN pop_oldest(Tail(lines), max) ELSE lines

\* HiLink: lines[-(LOG_MAX_ENTRIES - 1):], a Python slice: -0 is 0, so a
\* bound of 0 from the end selects the whole list
lines_to_keep(lines, max) ==
    IF max - 1 = 0 THEN lines
    ELSE IF Len(lines) <= max - 1 THEN lines
    ELSE SubSeq(lines, Len(lines) - (max - 1) + 1, Len(lines))

OthersIdle(p) == \A q \in LogProcs \ {p} : lg[q].pc = "idle"

\* a call of log_message starts: its entry is the next one made
Starts(p) ==
    log_ctl' = [log_ctl EXCEPT !.seq = @ + 1,
                               !.overlapped = @ \/ ~OthersIdle(p)]

LogFrame == UNCHANGED <<impl, configs_file, conf_dir, svc_active, ret, budget,
                        tmp_file, wr, rd, log_max, TunnelVars, StepVars>>

\* services, lines 28-36: the entry is made, the file read, the list rotated
\* and extended in memory
LogRead(p) ==
    /\ impl = "services"
    /\ lg[p].pc = "idle"
    /\ log_ctl.seq < MaxAppends
    /\ Starts(p)
    /\ lg' = [lg EXCEPT ![p] = [pc |-> "write", log_entry |-> log_ctl.seq + 1,
                                lines |-> Append(pop_oldest(log_file, log_max),
                                                 log_ctl.seq + 1)]]
    /\ UNCHANGED log_file
    /\ LogFrame

\* services, lines 37-38: the file is rewritten from the list
LogWrite(p) ==
    /\ impl = "services"
    /\ lg[p].pc = "write"
    /\ log_file' = lg[p].lines
    /\ lg' = [lg EXCEPT ![p] = LoggerIdle]
    /\ UNCHANGED log_ctl
    /\ LogFrame

\* HiLink, lines 52-56: the entry is made, the file opened and flock(LOCK_EX)
\* granted
LogLock(p) ==
    /\ impl = "hilink"
    /\ lg[p].pc = "idle"
    /\ log_ctl.seq < MaxAppends
    /\ log_ctl.lock = None
    /\ log_ctl' = [log_ctl EXCEPT !.seq = @ + 1, !.lock = p,
                                  !.overlapped = @ \/ ~OthersIdle(p)]
    /\ lg' = [lg EXCEPT ![p] = [pc |-> "rotate", log_entry |-> log_ctl.seq + 1,
                                lines |-> << >>]]
    /\ UNCHANGED log_file
    /\ LogFrame

\* HiLink, lines 58-64: read, and rewrite the tail when the log is full
LogRotate(p) ==
    /\ impl = "hilink"
    /\ lg[p].pc = "rotate"
    /\ lg' = [lg EXCEPT ![p].pc = "append", ![p].lines = log_file]
    /\ log_file' = IF Len(log_file) >= log_max THEN lines_to_keep(log_file, log_max)
                   ELSE log_file
    /\ UNCHANGED log_ctl
    /\ LogFrame

\* HiLink, lines 65-68: append the entry and release the lock
LogAppend(p) ==
    /\ impl = "hilink"
    /\ lg[p].pc = "append"
    /\ log_file' = Append(log_file, lg[p].log_entry)
    /\ lg' = [lg EXCEPT ![p] = LoggerIdle]
    /\ log_ctl' = [log_ctl EXCEPT !.lock = None]
    /\ LogFrame

NextLog ==
    \E p \in LogProcs :
        LogRead(p) \/ LogWrite(p) \/ LogLock(p) \/ LogRotate(p) \/ LogAppend(p)

InitLog == Fresh /\ budget = 0 /\ log_max \in 1..MaxLogMax

SpecLog == InitLog /\ [][NextLog]_vars

----------------------------------------------------------------------------
(* Tunnel supervisor (services snapshot) *)

TunnelIds == {"tunnel_a", "tunnel_b"}
TunnelTypes == {"Ngrok", "Cloudflare", "Serveo"}
\* what the environment does to a start: the helper binary is missing, the
\* `sleep 2` command fails, the ngrok API cannot be queried or parsed, the API
\* lists no matching tunnel, or all goes well
StartEnvs == {"ok", "no_command", "sleep_fails", "curl_fails", "no_tunnel_info"}
LocalPort == PORT_RANGE_START

\* what a tunnel handler leaves and answers
TunnelOutcome(success, error, message, file, live, count) ==
    [success |-> success, error |-> error, message |-> message, file |-> file,
     alive |-> live, spawned |-> count]

get_tunnel_pids(file) == read_state_file(file, EmptyTable)

\* a probe that finds no process alive
is_pid_running_never(info, live) == FALSE

\* is_pid_running(info.get('pid')): a missing pid is not running; os.kill(pid, 0)
\* otherwise
is_pid_running(info, live) == HasKey(info, "pid") /\ info["pid"] \in live

\* lines 527-530
start_record(tunnel_id, local_port, linked_to, tunnel_type, url, pids, live, count) ==
    TunnelOutcome(TRUE, "", "",
        write_state_file(Put(pids, tunnel_id,
            [pid |-> count + 1, port |-> local_port, url |-> url,
             type |-> tunnel_type, linkedTo |-> linked_to])),
        live \cup {count + 1}, count + 1)

\* lines 503-516; the helper gets process id count + 1
start_ngrok(tunnel_id, local_port, linked_to, env, pids, file, live, count) ==
    IF env = "no_command"
    THEN TunnelOutcome(FALSE, "ngrok command not found.", "", file, live, count)
    ELSE IF env = "sleep_fails"
    THEN TunnelOutcome(FALSE, "Command failed: sleep 2", "", file,
                       live \cup {count + 1}, count + 1)
    ELSE IF env = "curl_fails"
    THEN TunnelOutcome(FALSE, "Command failed: curl", "", file, live, count + 1)
    ELSE IF env = "no_tunnel_info"
    THEN TunnelOutcome(FALSE, "Could not find started ngrok tunnel in ngrok API.", "",
                       file, live, count + 1)
    ELSE start_record(tunnel_id, local_port, linked_to, "Ngrok",
                      "tcp://0.tcp.ngrok.io", pids, live, count)

\* lines 518-523
start_cloudflare(tunnel_id, local_port, linked_to, cloudflare_id, env, pids, file, live, count) ==
    IF env = "no_command"
    THEN TunnelOutcome(FALSE, "cloudflared command not found.", "", file, live, count)
    ELSE IF cloudflare_id = None
    THEN TunnelOutcome(FALSE, "Cloudflare Tunnel ID is required.", "", file, live, count)
    ELSE IF env = "sleep_fails"
    THEN TunnelOutcome(FALSE, "Command failed: sleep 2", "", file,
                       live \cup {count + 1}, count + 1)
    ELSE start_record(tunnel_id, local_port, linked_to, "Cloudflare",
                      "tcp://trycloudflare.com", pids, live, count)

\* start_tunnel(tunnel_id, local_port, linked_to, tunnel_type, cloudflare_id)
start_tunnel(tunnel_id, local_port, linked_to, tunnel_type, cloudflare_id, env, file, live, count) ==
    IF /\ tunnel_id \in DOMAIN get_tunnel_pids(file)
       /\ is_pid_running(get_tunnel_pids(file)[tunnel_id], live)
    THEN TunnelOutcome(TRUE, "", "Tunnel already running.", file, live, count)
    ELSE IF tunnel_type = "Ngrok"
    THEN start_ngrok(tunnel_id, local_port, linked_to, env, get_tunnel_pids(file),
                     file, live, count)
    ELSE IF tunnel_type = "Cloudflare"
    THEN start_cloudflare(tunnel_id, local_port, linked_to, cloudflare_id, env,
                          get_tunnel_pids(file), file, live, count)
    ELSE TunnelOutcome(FALSE, "Unknown tunnel type", "", file, live, count)

\* a deletion that removes nothing
Del_none(pids, tunnel_id) == pids

\* a deletion that empties the table
Del_all(pids, tunnel_id) == EmptyTable

\* a table without the record of tunnel_id: del pids[tunnel_id]
Del(pids, tunnel_id) == [t \in DOMAIN pids \ {tunnel_id} |-> pids[t]]

\* stop_tunnel(tunnel_id); kill_ok is whether os.killpg reached the group
stop_tunnel(tunnel_id, kill_ok, file, live, count) ==
    IF \/ tunnel_id \notin DOMAIN get_tunnel_pids(file)
       \/ get_tunnel_pids(file)[tunnel_id] = EmptyTable
       \/ ~is_pid_running(get_tunnel_pids(file)[tunnel_id], live)
    THEN TunnelOutcome(TRUE, "", "Tunnel was not running.",
             IF tunnel_id \in DOMAIN get_tunnel_pids(file)
             THEN write_state_file(Del(get_tunnel_pids(file), tunnel_id)) ELSE file,
             live, count)
    ELSE TunnelOutcome(TRUE, "", "Tunnel stopped.",
             write_state_file(Del(get_tunnel_pids(file), tunnel_id)),
             IF kill_ok THEN live \ {get_tunnel_pids(file)[tunnel_id]["pid"]} ELSE live,
             count)

\* a probe pass that keeps every record
LiveRecords_all(pids, live) == DOMAIN pids

\* the records get_all_tunnel_statuses keeps
LiveRecords(pids, live) == {t \in DOMAIN pids : is_pid_running(pids[t], live)}

\* the data of get_all_tunnel_statuses: one status per record found running
statuses(pids, live) ==
    {[id |-> t, type |-> pids[t]["type"], status |-> "active", url |-> pids[t]["url"],
      localPort |-> pids[t]["port"], linkedTo |-> pids[t]["linkedTo"]] :
        t \in LiveRecords(pids, live)}

\* get_all_tunnel_statuses()
get_all_tunnel_statuses(file, live, count) ==
    TunnelOutcome(TRUE, "", "",
        IF LiveRecords(get_tunnel_pids(file), live) # DOMAIN get_tunnel_pids(file)
        THEN write_state_file([t \in LiveRecords(get_tunnel_pids(file), live) |->
                                  get_tunnel_pids(file)[t]])
        ELSE file,
        live, count)

TunnelFrame == UNCHANGED <<impl, configs_file, conf_dir, svc_active, tmp_file, wr, rd,
                           LogVars, StepVars>>

\* the invocation ends: r is what its handler left and answered
TunnelReturns(op, tunnel_id, r, seen, active) ==
    /\ tunnel_pids_file' = r.file
    /\ alive' = r.alive
    /\ spawned' = r.spawned
    /\ ret' = Result(op, r.success, r.error, seen, {}, tunnel_id, FALSE, r.message, active, 1, 0)
    /\ budget' = budget - 1
    /\ TunnelFrame

\* action start_tunnel
StartTunnel ==
    /\ impl = "services"
    /\ budget > 0
    /\ \E tunnel_id \in TunnelIds, tunnel_type \in TunnelTypes,
          cloudflare_id \in {None, "cf-1"}, env \in StartEnvs :
          /\ start_tunnel(tunnel_id, LocalPort, "wwan0", tunnel_type, cloudflare_id,
                          env, tunnel_pids_file, alive, spawned).spawned <= MaxSpawn
          /\ TunnelReturns("start_tunnel", tunnel_id,
                 start_tunnel(tunnel_id, LocalPort, "wwan0", tunnel_type, cloudflare_id,
                              env, tunnel_pids_file, alive, spawned), {}, {})

\* action stop_tunnel
StopTunnel ==
    /\ impl = "services"
    /\ budget > 0
    /\ \E tunnel_id \in TunnelIds, kill_ok \in BOOLEAN :
          TunnelReturns("stop_tunnel", tunnel_id,
              stop_tunnel(tunnel_id, kill_ok, tunnel_pids_file, alive, spawned), {}, {})

\* action get_all_tunnel_statuses
GetAllTunnelStatuses ==
    /\ impl = "services"
    /\ budget > 0
    /\ TunnelReturns("get_all_tunnel_statuses", None,
           get_all_tunnel_statuses(tunnel_pids_file, alive, spawned),
           DOMAIN get_tunnel_pids(tunnel_pids_file),
           {st.id : st \in statuses(get_tunnel_pids(tunnel_pids_file), alive)})

\* a helper process ends by itself
HelperExits ==
    /\ \E pid \in alive : alive' = alive \ {pid}
    /\ UNCHANGED <<tunnel_pids_file, spawned, ret, budget>>
    /\ TunnelFrame

NextTunnel == StartTunnel \/ StopTunnel \/ GetAllTunnelStatuses \/ HelperExits

InitTunnel ==
    Fresh /\ impl = "services" /\ budget = MaxTunnelOps /\ log_max = LOG_MAX_ENTRIES

SpecTunnel == InitTunnel /\ [][NextTunnel]_vars

-----------------------------------------------------------------------------
(* main: the paths of an invocation that reach no handler *)

MainFrame == UNCHANGED <<impl, configs_file, conf_dir, svc_active, tmp_file, wr, rd,
                         LogVars, TunnelVars, StepVars>>

\* the invocation ends without having touched the stores
MainReturns(op, success, error, printed, exit_code) ==
    /\ ret' = Result(op, success, error, {}, {}, None, FALSE, "", {}, printed, exit_code)
    /\ budget' = budget - 1
    /\ MainFrame

\* the action words main does not dispatch: anything but get_all_modem_statuses
\* in the HiLink snapshot, anything outside its list in the services snapshot
UndispatchedActions ==
    IF impl = "hilink" THEN {"bogus", "start", "start_tunnel"} ELSE {"bogus"}

\* what main answers to an action word it does not dispatch
undispatched_error(action) ==
    IF impl = "hilink" THEN "Action is not yet implemented for HiLink modems."
    ELSE "Unknown action"

\* len(sys.argv) < 2: the error document, then sys.exit(1)
MainNoAction ==
    /\ budget > 0
    /\ MainReturns("no_action", FALSE, "No action specified", 1, 1)

\* the else branch of the dispatch: an error document, exit code zero
MainUnknownAction ==
    /\ budget > 0
    /\ \E action \in UndispatchedActions :
          MainReturns(action, FALSE, undispatched_error(action), 1, 0)

\* what can fail before main's try block: the state directory cannot be made
\* (mkdir raises, the interpreter ends with a traceback), or, HiLink only, the
\* configuration directory cannot be made (PermissionError, sys.exit(1))
EnvironmentFailures ==
    IF impl = "hilink" THEN {"state_dir", "conf_dir"} ELSE {"state_dir"}

\* the invocation ends before the dispatch: nothing is printed, exit code 1
MainEnvironmentFails ==
    /\ budget > 0
    /\ \E cause \in EnvironmentFailures :
          MainReturns("initialize_environment", FALSE, "", 0, 1)

NextMain ==
    \/ MainNoAction \/ MainUnknownAction \/ MainEnvironmentFails
    \/ Reconcile_hilink \/ Reconcile \/ ProxyAction \/ UpdateProxyConfig
    \/ StartTunnel \/ StopTunnel \/ GetAllTunnelStatuses \/ HelperExits

InitMain == Fresh /\ budget = MaxMainOps /\ log_max = LOG_MAX_ENTRIES

SpecMain == InitMain /\ [][NextMain]_vars

-----------------------------------------------------------------------------
(* External commands: one invocation inside run_command, second by second *)

\* a call of run_command: the program, the timeout in seconds, check and
\* suppress_error (the services run_command always checks, never suppresses)
Call(command, timeout, check, suppress_error) ==
    [command |-> command, timeout |-> timeout, check |-> check,
     suppress_error |-> suppress_error]

\* the calls of each snapshot, by their timeouts
CallSites ==
    IF impl = "hilink"
    THEN {Call("ip", DEFAULT_TIMEOUT, TRUE, FALSE),
          Call("pkexec", DEFAULT_TIMEOUT, FALSE, TRUE)}
    ELSE {Call("systemctl", 15, TRUE, FALSE), Call("sleep", 5, TRUE, FALSE),
          Call("curl", 10, TRUE, FALSE), Call("mmcli", 30, TRUE, FALSE)}

\* how subprocess.run ends
Endings == {"exit_zero", "exit_nonzero", "timed_out"}

CmdOutcome(raised, value) == [raised |-> raised, value |-> value]

\* HiLink run_command: one handler for CalledProcessError, FileNotFoundError
\* and TimeoutExpired, which returns the error text when suppress_error is set
run_command_hilink(call, ending) ==
    IF ending = "exit_zero" \/ (ending = "exit_nonzero" /\ ~call.check)
    THEN CmdOutcome(FALSE, "stdout")
    ELSE IF call.suppress_error THEN CmdOutcome(FALSE, "No error output.")
    ELSE CmdOutcome(TRUE, "Command failed")

\* services run_command: TimeoutExpired and CalledProcessError are logged
\* and raised again as Exception
run_command(call, ending) ==
    IF ending = "exit_zero" THEN CmdOutcome(FALSE, "stdout")
    ELSE IF ending = "timed_out" THEN CmdOutcome(TRUE, "Command timed out")
    ELSE CmdOutcome(TRUE, "Command failed")

RunCommand(call, ending) ==
    IF impl = "hilink" THEN run_command_hilink(call, ending) ELSE run_command(call, ending)

CmdFrame == UNCHANGED <<impl, configs_file, conf_dir, svc_active, tmp_file, wr, rd,
                        LogVars, TunnelVars, inv>>

\* an invocation calls run_command: subprocess.run starts the child
CmdStart ==
    /\ budget > 0
    /\ cmd.pc \in {"idle", "left"}
    /\ \E call \in CallSites :
          cmd' = [CmdIdle EXCEPT !.pc = "running", !.call = call]
    /\ budget' = budget - 1
    /\ UNCHANGED ret
    /\ CmdFrame

\* a second passes while the child runs
CmdTick ==
    /\ cmd.pc = "running"
    /\ cmd.elapsed < cmd.call.timeout
    /\ cmd' = [cmd EXCEPT !.elapsed = @ + 1]
    /\ UNCHANGED <<ret, budget>>
    /\ CmdFrame

\* run_command is left, by return or by raise
CmdReturns(ending) ==
    /\ cmd' = [cmd EXCEPT !.pc = "left", !.ending = ending,
                          !.raised = RunCommand(cmd.call, ending).raised,
                          !.value = RunCommand(cmd.call, ending).value]
    /\ UNCHANGED <<ret, budget>>
    /\ CmdFrame

\* the child exits within the timeout
CmdExits ==
    /\ cmd.pc = "running"
    /\ cmd.elapsed < cmd.call.timeout
    /\ \E ending \in {"exit_zero", "exit_nonzero"} : CmdReturns(ending)

\* the timeout expires: subprocess.run kills the child and raises TimeoutExpired
CmdTimeout ==
    /\ cmd.pc = "running"
    /\ cmd.elapsed = cmd.call.timeout
    /\ CmdReturns("timed_out")

NextCmd == CmdStart \/ CmdTick \/ CmdExits \/ CmdTimeout

InitCmd == Fresh /\ budget = MaxCalls /\ log_max = LOG_MAX_ENTRIES

\* the clock advances and the timer of subprocess.run fires
SpecCmd == InitCmd /\ [][NextCmd]_vars /\ WF_vars(CmdTick) /\ WF_vars(CmdTimeout)

-----------------------------------------------------------------------------
(* Reconciliation by two invocations at once: each reads the table, then    *)
(* allocates, renders and writes, with the other free to run in between     *)

\* the modems one of these invocations discovers: a single interface
OneModemLists == {sl \in StatusLists : Len(sl) = 1}

\* services: the loop of lines 298-317 over what line 295 read
overlap_loop(status_list, proxy_configs, creds, file, dir) ==
    recon_loop(status_list, 1,
               [proxy_configs |-> proxy_configs, configs_changed |-> FALSE,
                conf_dir |-> dir, created |-> {}, raised |-> FALSE, error |-> ""],
               file, creds)

\* the rest of get_all_modem_statuses after its read_state_file
overlap_finish(status_list, proxy_configs, creds, file, dir, active) ==
    IF impl = "hilink"
    THEN recon_read_hilink(status_list[1].interfaceName, status_list[1].status,
                           status_list[1].ipAddress, creds[1], proxy_configs, file, dir,
                           active)
    ELSE recon_result(status_list,
                      overlap_loop(status_list, proxy_configs, creds, file, dir),
                      file, active)

\* the allocations of the data payload: modem['proxyConfig'] (services line
\* 306), 'proxyConfig': cfg (HiLink line 249)
overlap_returned(status_list, proxy_configs, creds, file, dir) ==
    IF impl = "hilink"
    THEN [d \in Names(status_list) |->
             get_or_create_proxy_config_hilink(d, proxy_configs, creds[1].username,
                                               creds[1].password).config]
    ELSE [d \in Names(status_list) |->
             overlap_loop(status_list, proxy_configs, creds, file, dir).proxy_configs[d]]

OverlapFrame == UNCHANGED <<impl, svc_active, tmp_file, wr, rd, LogVars, TunnelVars, cmd>>

\* lines 287-295 (HiLink 214-229): discovery, then read_state_file
OverlapRead(p) ==
    /\ budget > 0
    /\ inv[p].pc = "idle"
    /\ \E status_list \in OneModemLists :
          inv' = [inv EXCEPT ![p] =
                     [InvIdle EXCEPT !.pc = "read", !.status_list = status_list,
                                     !.proxy_configs = read_state_file(configs_file,
                                                                       EmptyTable)]]
    /\ budget' = budget - 1
    /\ UNCHANGED <<configs_file, conf_dir, ret>>
    /\ OverlapFrame

\* lines 298-325 (HiLink 230-265): allocate, render, write, answer
OverlapFinish(p) ==
    /\ inv[p].pc = "read"
    /\ \E creds \in CredLists(1) :
          LET r == overlap_finish(inv[p].status_list, inv[p].proxy_configs, creds,
                                  configs_file, conf_dir, svc_active)
          IN /\ configs_file' = r.file
             /\ conf_dir' = r.conf_dir
             /\ ret' = Result("get_all_modem_statuses", r.success, r.error,
                              Names(inv[p].status_list), r.created, None, FALSE, "",
                              {}, 1, 0)
             /\ inv' = [inv EXCEPT ![p] =
                          [InvIdle EXCEPT !.returned =
                              IF r.success
                              THEN overlap_returned(inv[p].status_list,
                                       inv[p].proxy_configs, creds, configs_file,
                                       conf_dir)
                              ELSE EmptyTable]]
    /\ UNCHANGED budget
    /\ OverlapFrame

NextOverlap == \E p \in LogProcs : OverlapRead(p) \/ OverlapFinish(p)

InitOverlap == Fresh /\ budget = MaxOverlapOps /\ log_max = LOG_MAX_ENTRIES

SpecOverlap == InitOverlap /\ [][NextOverlap]_vars

-----------------------------------------------------------------------------
(* Tunnel operations by two invocations at once: each reads the tunnel      *)
(* table, then probes, spawns or signals and writes, with the other free to *)
(* run in between.  The commands and signals themselves succeed.            *)

TunnelOps == {"start_tunnel", "stop_tunnel", "get_all_tunnel_statuses"}

\* the rest of a tunnel operation after its get_tunnel_pids, on the table as
\* it was read (file)
tunnel_finish(op, tunnel_id, tunnel_type, file, live, count) ==
    IF op = "start_tunnel"
    THEN start_tunnel(tunnel_id, LocalPort, "wwan0", tunnel_type, "cf-1", "ok", file,
                      live, count)
    ELSE IF op = "stop_tunnel" THEN stop_tunnel(tunnel_id, TRUE, file, live, count)
    ELSE get_all_tunnel_statuses(file, live, count)

\* save_tunnel_pids replaces the file; an operation that saves nothing
\* leaves the file as it is now
saved(r, file_read, file_now) == IF r.file = file_read THEN file_now ELSE r.file

TunnelOverlapFrame ==
    UNCHANGED <<impl, configs_file, conf_dir, svc_active, tmp_file, wr, rd, LogVars, cmd>>

\* get_tunnel_pids(): lines 497, 533, 550
TunnelRead(p) ==
    /\ impl = "services"
    /\ budget > 0
    /\ inv[p].pc = "idle"
    /\ \E op \in TunnelOps, tunnel_id \in TunnelIds :
          inv' = [inv EXCEPT ![p] =
                     [InvIdle EXCEPT !.pc = "pids", !.op = op, !.dev = tunnel_id,
                                     !.file = tunnel_pids_file]]
    /\ budget' = budget - 1
    /\ UNCHANGED <<ret, TunnelVars>>
    /\ TunnelOverlapFrame

\* the operation from its probe to its return
TunnelFinish(p) ==
    /\ inv[p].pc = "pids"
    /\ \E tunnel_type \in {"Ngrok", "Cloudflare"} :
          LET r == tunnel_finish(inv[p].op, inv[p].dev, tunnel_type, inv[p].file, alive,
                                 spawned)
          IN /\ r.spawned <= MaxSpawn
             /\ tunnel_pids_file' = saved(r, inv[p].file, tunnel_pids_file)
             /\ alive' = r.alive
             /\ spawned' = r.spawned
             /\ ret' = Result(inv[p].op, r.success, r.error, {}, {}, inv[p].dev, FALSE,
                              r.message, {}, 1, 0)
    /\ inv' = [inv EXCEPT ![p] = InvIdle]
    /\ UNCHANGED budget
    /\ TunnelOverlapFrame

\* a helper process ends by itself while invocations are under way
HelperExitsOverlap ==
    /\ \E pid \in alive : alive' = alive \ {pid}
    /\ UNCHANGED <<tunnel_pids_file, spawned, ret, budget, inv>>
    /\ TunnelOverlapFrame

NextTunnelOverlap ==
    \/ \E p \in LogProcs : TunnelRead(p) \/ TunnelFinish(p)
    \/ HelperExitsOverlap

InitTunnelOverlap ==
    Fresh /\ impl = "services" /\ budget = MaxTunnelOps /\ log_max = LOG_MAX_ENTRIES

SpecTunnelOverlap == InitTunnelOverlap /\ [][NextTunnelOverlap]_vars

-----------------------------------------------------------------------------
(* The allocator by itself: get_or_create_proxy_config applied to tables    *)
(* that hold entries made by an update for a device never reconciled        *)

\* the entry update_proxy_config leaves for a device the table did not know
PartialEntry == [customName |-> "lab"]

\* the tables the allocator is first applied to
AllocTables == UNION {[S -> {PartialEntry}] : S \in SUBSET Devices}

\* get_or_create_proxy_config of the installed snapshot, and the caller's
\* proxy_configs[interface_name] = cfg with the write that follows
alloc_call(interface_name, cred, file) ==
    LET all_configs == read_state_file(file, EmptyTable)
        r == IF impl = "hilink"
             THEN get_or_create_proxy_config_hilink(interface_name, all_configs,
                                                    cred.username, cred.password)
             ELSE get_or_create_proxy_config(interface_name, all_configs,
                                             cred.username, cred.password)
    IN [raised |-> r.raised, created |-> r.created, config |-> r.config,
        file |-> IF r.created
                 THEN write_state_file(Put(all_configs, interface_name, r.config))
                 ELSE file]

AllocFrame == UNCHANGED <<impl, conf_dir, svc_active, tmp_file, wr, rd, LogVars,
                          TunnelVars, StepVars>>

\* one call of the allocator for a device, and the store of what it generated
AllocCall ==
    /\ budget > 0
    /\ \E interface_name \in Devices, cred \in Creds :
          LET r == alloc_call(interface_name, cred, configs_file)
          IN /\ configs_file' = r.file
             /\ ret' = Result("get_or_create_proxy_config", ~r.raised,
                              IF r.raised THEN "No available ports" ELSE "", {},
                              IF r.created THEN {interface_name} ELSE {},
                              interface_name, FALSE, "", {}, 0, 0)
    /\ budget' = budget - 1
    /\ AllocFrame

NextAlloc == AllocCall

InitAlloc ==
    /\ impl \in {"hilink", "services"}
    /\ configs_file \in {write_state_file(t) : t \in AllocTables}
    /\ conf_dir = [d \in Devices |-> NoCfg]
    /\ svc_active = {}
    /\ ret = Result("none", TRUE, "", {}, {}, None, FALSE, "", {}, 0, 0)
    /\ tmp_file = AbsentFile
    /\ wr = WriterIdle
    /\ rd = ReaderIdle
    /\ log_file = << >>
    /\ lg = [p \in LogProcs |-> LoggerIdle]
    /\ log_ctl = [lock |-> None, seq |-> 0, overlapped |-> FALSE]
    /\ tunnel_pids_file = AbsentFile
    /\ alive = {}
    /\ spawned = 0
    /\ cmd = CmdIdle
    /\ inv = [p \in LogProcs |-> InvIdle]
    /\ budget = MaxAllocs
    /\ log_max = LOG_MAX_ENTRIES

SpecAlloc == InitAlloc /\ [][NextAlloc]_vars

----------------------------------------------------------------------------
(* Properties *)

\* the persisted allocation table, as any invocation would read it
Table == read_state_file(configs_file, EmptyTable)

Allocated(table, d) ==
    d \in DOMAIN table /\ HasKey(table[d], "httpPort") /\ HasKey(table[d], "socksPort")

\* the generated part of an allocation
Core(entry) ==
    <<Get(entry, "httpPort"), Get(entry, "socksPort"), Get(entry, "username"),
      Get(entry, "password")>>

UsedHttp(table) == {table[d]["httpPort"] : d \in {x \in DOMAIN table : HasKey(table[x], "httpPort")}}
UsedSocks(table) == {table[d]["socksPort"] : d \in {x \in DOMAIN table : HasKey(table[x], "socksPort")}}

\* the allocator of the installed snapshot
GetOrCreate(d, table, c) ==
    IF impl = "hilink"
    THEN get_or_create_proxy_config_hilink(d, table, c.username, c.password)
    ELSE get_or_create_proxy_config(d, table, c.username, c.password)

IsPass == ret.op = "get_all_modem_statuses"

\* C1: in a table whose allocations were all generated by reconciliation
\* passes that do not overlap, no two devices hold the same http port and no
\* two devices hold the same socks port.
C1_PortsUnique ==
    \A a, b \in DOMAIN Table :
        a # b => /\ GetPort(Table[a], "httpPort") # GetPort(Table[b], "httpPort")
                 /\ GetPort(Table[a], "socksPort") # GetPort(Table[b], "socksPort")

\* a pass has just generated an allocation beside an older one
C1_Witness ==
    /\ IsPass /\ ret.success /\ ret.created # {}
    /\ \E a, b \in DOMAIN Table : a # b /\ Allocated(Table, a) /\ Allocated(Table, b)

\* C2: across any sequence of reconciliation passes, a device that has an
\* allocation keeps it, with the same ports and the same credentials.
C2_NeverRegenerated ==
    [][\A d \in Devices :
          Allocated(Table, d) =>
              Allocated(Table', d) /\ Core(Table'[d]) = Core(Table[d])]_vars

\* a pass has met a device allocated by an earlier pass, in a table of several
C2_Witness ==
    /\ IsPass /\ ret.success
    /\ Cardinality(DOMAIN Table) >= 2
    /\ \E d \in ret.seen \ ret.created : Allocated(Table, d)

\* C3: for a device that already has an allocation, get_or_create_proxy_config
\* returns exactly that allocation with created = false, whatever the tokens
\* drawn, so that repeating the call changes nothing.
C3_GetOrCreateIdempotent ==
    \A d \in Devices, c \in Creds :
        Allocated(Table, d) => GetOrCreate(d, Table, c) = AllocResult(Table[d], FALSE)

\* a pass in which every call found the allocation already there
C3_Witness ==
    /\ IsPass /\ ret.success
    /\ ret.seen # {} /\ ret.created = {}
    /\ \A d \in ret.seen : Allocated(Table, d)

\* C4: after a reconciliation pass, every device discovered in that pass has
\* an allocation in the persisted table (a pass that ran out of ports aside).
C4_DiscoveredPersisted ==
    (IsPass /\ ret.error # "No available ports") =>
        \A d \in ret.seen : Allocated(Table, d)

\* C5: from an empty table, reconciling wwan0 and then wwan1 leaves wwan0 with
\* ports (7001, 8001) and wwan1 with ports (7002, 8002), and each of them has
\* a rendered configuration file once its egress address is known.
C5_EndToEnd ==
    (/\ IsPass /\ ret.success
     /\ DOMAIN Table = {"wwan0", "wwan1"}
     /\ "wwan1" \in ret.created) =>
        /\ GetPort(Table["wwan0"], "httpPort") = 7001
        /\ GetPort(Table["wwan0"], "socksPort") = 8001
        /\ GetPort(Table["wwan1"], "httpPort") = 7002
        /\ GetPort(Table["wwan1"], "socksPort") = 8002
        /\ \A d \in DOMAIN Table :
               Get(Table[d], "bindIp") # None => conf_dir[d].exists

Lowest(S) == CHOOSE p \in S : \A q \in S : p <= q

\* the range each kind of port is drawn from, ends included
HttpRange ==
    IF impl = "hilink" THEN HTTP_PORT_RANGE_START..HTTP_PORT_RANGE_END
    ELSE PORT_RANGE_START..PORT_RANGE_END
SocksRange ==
    IF impl = "hilink" THEN SOCKS_PORT_RANGE_START..SOCKS_PORT_RANGE_END
    ELSE PORT_RANGE_START..PORT_RANGE_END

\* C6: a generated allocation takes the lowest value of the http range that no
\* allocation holds as http port and, independently, the lowest value of the
\* socks range that no allocation holds as socks port.
C6_LowestUnusedEach ==
    \A d \in Devices, c \in Creds :
        GetOrCreate(d, Table, c).created =>
            /\ GetOrCreate(d, Table, c).config.httpPort = Lowest(HttpRange \ UsedHttp(Table))
            /\ GetOrCreate(d, Table, c).config.socksPort = Lowest(SocksRange \ UsedSocks(Table))

\* C7: in every reachable allocation table, no value is the http port of one
\* allocation and the socks port of an allocation.
C7_NoValueBoth == UsedHttp(Table) \cap UsedSocks(Table) = {}

\* every value the allocator's scan visits is taken (range(start, end) stops
\* before end)
ScanExhausted(table) ==
    IF impl = "hilink"
    THEN \/ \A p \in HTTP_PORT_RANGE_START..(HTTP_PORT_RANGE_END - 1) : p \in UsedHttp(table)
         \/ \A p \in SOCKS_PORT_RANGE_START..(SOCKS_PORT_RANGE_END - 1) : p \in UsedSocks(table)
    ELSE \A p \in PORT_RANGE_START..(PORT_RANGE_END - 1) :
             p \in UsedHttp(table) \cup UsedSocks(table)

\* what a pass over a device without allocation answers, whatever else it sees
PassesOverNew ==
    IF impl = "hilink"
    THEN {get_all_modem_statuses_hilink(d, TRUE, modem_status, modem_ip, c,
                                        configs_file, conf_dir, svc_active) :
            d \in Devices \ DOMAIN Table, modem_status \in {"connected", "disconnected"},
            modem_ip \in IPs \cup {NoIp}, c \in Creds}
    ELSE UNION {{get_all_modem_statuses(status_list, creds, configs_file, conf_dir,
                                        svc_active) :
                   creds \in Draws(status_list, configs_file)} :
                status_list \in {l \in StatusLists : ~(Names(l) \subseteq DOMAIN Table)}}

\* C8: when a port range has no unused value left, get_or_create_proxy_config
\* fails without returning an allocation, and the pass that called it answers
\* success = false with that error and leaves the persisted table as it was.
C8_ExhaustionFails ==
    /\ (IsPass /\ ret.error = "No available ports") => ~ret.success
    /\ ScanExhausted(Table) =>
          /\ \A d \in Devices \ DOMAIN Table, c \in Creds :
                 GetOrCreate(d, Table, c) = AllocRaised
          /\ \A r \in PassesOverNew :
                 ~r.success /\ r.error = "No available ports" /\ r.file = configs_file

\* a pass has just failed for want of a port
C8_Witness ==
    IsPass /\ ~ret.success /\ ret.error = "No available ports" /\ ScanExhausted(Table)

\* C9: no allocation of the persisted table lacks its http port or its socks
\* port, after reconciliation as after update_proxy_config.
C9_NoPartialEntry == \A d \in DOMAIN Table : Allocated(Table, d)

\* C10: a read_state_file that runs while another invocation is inside
\* write_state_file on the same key returns the document of the last complete
\* write or the document being written, never anything else.
C10_ReaderSeesWhole ==
    (rd.pc = "done" /\ rd.at \in {"dump", "replace"}) => rd.result \in {rd.prev, rd.new}

\* C11: after the writing process crashed at any step inside write_state_file,
\* read_state_file returns the document of the last complete write, intact.
C11_CrashKeepsPrevious ==
    (rd.pc = "done" /\ rd.at = "crashed") => rd.result = rd.prev

\* C12: a read that follows a completed write_state_file, with no write in
\* between, returns the document written, and after any sequence of
\* sequential writes the file parses and holds the last document written.
C12_RoundTrip ==
    /\ (rd.pc = "done" /\ rd.at = "idle") => rd.result = rd.new
    /\ (wr.pc = "idle" /\ budget < MaxWrites) =>
           /\ configs_file.exists /\ json_ok(configs_file.bytes)
           /\ read_state_file(configs_file, EmptyTable) = wr.data

\* a second write has completed and its two-device document has been read back
C12_Witness ==
    /\ rd.pc = "done" /\ rd.at = "idle" /\ wr.pc = "idle"
    /\ budget <= MaxWrites - 2
    /\ Cardinality(DOMAIN rd.result) = 2

\* C13: a write holds an exclusive lock for the whole of serialize and move,
\* so that no read_state_file of the key runs while an invocation is inside
\* write_state_file.
C13_NoReadDuringWrite ==
    rd.pc = "done" => rd.at \notin {"dump", "replace"}

\* every call of log_message has returned
LogQuiet == \A p \in LogProcs : lg[p].pc = "idle"

\* the entries made so far, oldest first
RECURSIVE Made(_)
Made(n) == IF n = 0 THEN << >> ELSE Append(Made(n - 1), n)

\* C14: for any configured maximum of at least 1, the log file holds at most
\* that many entries at the end of every append.
C14_LogBound == LogQuiet => Len(log_file) <= log_max

\* C15: from an empty log, after max + k sequential appends exactly max
\* entries remain: the max most recent ones, oldest first.
C15_EvictOldest ==
    (LogQuiet /\ ~log_ctl.overlapped /\ log_ctl.seq >= log_max) =>
        log_file = SubSeq(Made(log_ctl.seq), log_ctl.seq - log_max + 1, log_ctl.seq)

\* C16: whatever the interleaving of the calls, while the log is below its
\* maximum every entry appended is in the file afterwards, once.
C16_NoEntryLost ==
    (LogQuiet /\ log_ctl.seq <= log_max) =>
        /\ Len(log_file) = log_ctl.seq
        /\ {log_file[i] : i \in 1..Len(log_file)} = 1..log_ctl.seq

\* the renderer of the installed snapshot
Render(config, ip) ==
    IF impl = "hilink" THEN generate_3proxy_config_content_hilink(config, ip)
    ELSE generate_3proxy_config_content(config, ip)

WriteRendered(d, ip, table, dir) ==
    IF impl = "hilink" THEN write_3proxy_config_file_hilink(d, ip, table, dir)
    ELSE write_3proxy_config_file(d, ip, table, dir)

Incomplete(config, ip) ==
    ip \in {NoIp, ""} \/ ~HasKey(config, "httpPort") \/ ~HasKey(config, "socksPort")

\* C17: generate_3proxy_config_content returns nothing exactly when the
\* egress IP is empty or unset or a port is unset; write_3proxy_config_file
\* then writes nothing and leaves the rendered files as they are; with an
\* egress IP and both ports it writes the rendered text for that device only.
C17_RenderAbsent ==
    \A d \in DOMAIN Table, ip \in IPs \cup {NoIp, ""} :
        /\ (Render(Table[d], ip) = NoText) <=> Incomplete(Table[d], ip)
        /\ Incomplete(Table[d], ip) =>
               WriteRendered(d, ip, Table, conf_dir).conf_dir = conf_dir
        /\ ~Incomplete(Table[d], ip) =>
               /\ ~WriteRendered(d, ip, Table, conf_dir).raised
               /\ WriteRendered(d, ip, Table, conf_dir).conf_dir =
                      [conf_dir EXCEPT ![d] = [exists |-> TRUE,
                                               text |-> Render(Table[d], ip)]]

\* one device's file has been written with the text rendered from its entry,
\* while another entry, left without ports by an update, renders to nothing
C17_Witness ==
    /\ \E e \in DOMAIN Table :
          /\ Allocated(Table, e) /\ conf_dir[e].exists
          /\ conf_dir[e].text = Render(Table[e], Get(Table[e], "bindIp"))
    /\ \E d \in DOMAIN Table, ip \in IPs :
          /\ ~Allocated(Table, d)
          /\ Render(Table[d], ip) = NoText
          /\ ~WriteRendered(d, ip, Table, conf_dir).raised

TunnelTable == read_state_file(tunnel_pids_file, EmptyTable)

\* C20: if the tunnel table has a record for the tunnel whose pid is alive,
\* start_tunnel answers success, spawns no helper process and leaves the
\* tunnel table as it is, whatever the tunnel type and the environment.
C20_StartLiveNoOp ==
    \A tunnel_id \in DOMAIN TunnelTable :
        TunnelTable[tunnel_id]["pid"] \in alive =>
            \A tunnel_type \in TunnelTypes, cloudflare_id \in {None, "cf-1"},
               env \in StartEnvs :
                start_tunnel(tunnel_id, LocalPort, "wwan0", tunnel_type, cloudflare_id,
                             env, tunnel_pids_file, alive, spawned)
                = TunnelOutcome(TRUE, "", "Tunnel already running.", tunnel_pids_file,
                                alive, spawned)

\* a start_tunnel has just answered for a tunnel whose helper is alive
C20_Witness ==
    /\ ret.op = "start_tunnel" /\ ret.success
    /\ ret.message = "Tunnel already running."
    /\ ret.dev \in DOMAIN TunnelTable
    /\ TunnelTable[ret.dev]["pid"] \in alive

\* what the installed snapshot's get_proxy_status answers for a connected modem
ProxyStatus(d) ==
    IF impl = "hilink" THEN get_proxy_status_hilink(d, svc_active)
    ELSE get_proxy_status(d, "connected", svc_active)

\* C19: when the is-active query for a device's service comes back non-zero
\* or not "active" (the unit is not active), get_proxy_status answers the
\* stopped state and reports no error.
C19_StatusNormalised ==
    \A d \in Devices : d \notin svc_active => ProxyStatus(d) = "stopped"

\* what start_tunnel would answer and leave in the current state
StartOutcome(tunnel_id, tunnel_type, cloudflare_id, env) ==
    start_tunnel(tunnel_id, LocalPort, "wwan0", tunnel_type, cloudflare_id, env,
                 tunnel_pids_file, alive, spawned)

\* C21: whenever start_tunnel fails after spawning a helper, it reports an
\* error, the helper it just spawned is no longer alive, and the tunnel table
\* is as it was (no record of the new process).
C21_FailedStartNoOrphan ==
    \A tunnel_id \in TunnelIds, tunnel_type \in TunnelTypes,
       cloudflare_id \in {None, "cf-1"}, env \in StartEnvs :
        LET r == StartOutcome(tunnel_id, tunnel_type, cloudflare_id, env)
        IN (r.spawned > spawned /\ ~r.success) =>
               /\ r.error # ""
               /\ r.spawned \notin r.alive
               /\ r.file = tunnel_pids_file

\* what stop_tunnel would answer and leave in the current state
StopOutcome(tunnel_id, kill_ok) == stop_tunnel(tunnel_id, kill_ok, tunnel_pids_file, alive, spawned)

\* C22: stop_tunnel(tunnel_id) always reports success and leaves a tunnel
\* table without a record for tunnel_id, whether the record was live, stale
\* or absent and whether or not the process group could be signalled.
C22_StopRemovesRecord ==
    /\ \A tunnel_id \in TunnelIds, kill_ok \in BOOLEAN :
          /\ StopOutcome(tunnel_id, kill_ok).success
          /\ tunnel_id \notin DOMAIN get_tunnel_pids(StopOutcome(tunnel_id, kill_ok).file)
    /\ ret.op = "stop_tunnel" => ret.success /\ ret.dev \notin DOMAIN TunnelTable

\* a stop_tunnel has answered for the live record of the only helper ever
\* spawned, and that helper survived the signal: the record is gone all the same
C22_Witness ==
    /\ ret.op = "stop_tunnel" /\ ret.message = "Tunnel stopped."
    /\ spawned = 1 /\ alive = {1}
    /\ TunnelTable = EmptyTable

\* the records of the tunnel table whose helper process is alive
LiveIds == {t \in DOMAIN TunnelTable : TunnelTable[t]["pid"] \in alive}

\* what get_all_tunnel_statuses would leave in the current state
ListOutcome == get_all_tunnel_statuses(tunnel_pids_file, alive, spawned)

\* C23: get_all_tunnel_statuses keeps exactly the records whose pid is alive
\* (unchanged) and persists the table without the dead ones, reports exactly
\* the live records, each as active, and a later call finds the same table:
\* the dead records stay absent.
C23_TunnelReconciliation ==
    /\ ListOutcome.success
    /\ get_tunnel_pids(ListOutcome.file) = [t \in LiveIds |-> TunnelTable[t]]
    /\ {st.id : st \in statuses(TunnelTable, alive)} = LiveIds
    /\ \A st \in statuses(TunnelTable, alive) : st.status = "active"
    /\ get_all_tunnel_statuses(ListOutcome.file, alive, spawned).file = ListOutcome.file
    /\ statuses(get_tunnel_pids(ListOutcome.file), alive) = statuses(TunnelTable, alive)
    /\ ret.op = "get_all_tunnel_statuses" =>
          /\ ret.success
          /\ ret.active = DOMAIN TunnelTable
          /\ ret.active \subseteq ret.seen

\* a get_all_tunnel_statuses has probed a record whose helper had exited and
\* one whose helper was alive: it reported the second and left only its record
C23_Witness ==
    /\ ret.op = "get_all_tunnel_statuses"
    /\ ret.seen \ ret.active # {}
    /\ ret.active # {}
    /\ DOMAIN TunnelTable = ret.active

\* the keys of the document an invocation printed: a handler's document has
\* success with data, with error or, for some tunnel answers, with message
DocKeys(r) ==
    IF r.printed = 0 THEN {}
    ELSE {"success"} \cup (IF r.message # "" THEN {"message"}
                           ELSE IF r.success THEN {"data"} ELSE {"error"})

\* C24: every invocation, whatever the action and the outcome, prints exactly
\* one result document, which has a success flag and a data payload or an
\* error message.
C24_OneResultDocument ==
    ret.op # "none" =>
        /\ ret.printed = 1
        /\ "success" \in DocKeys(ret)
        /\ "data" \in DocKeys(ret) \/ "error" \in DocKeys(ret)

\* C25: the exit code of an invocation is non-zero only when the arguments
\* have the wrong shape (no action given); every other failure ends with exit
\* code zero and success = false in the document.
C25_ExitCodeOnlyArguments ==
    /\ ret.exit_code # 0 => ret.op = "no_action"
    /\ (ret.op \notin {"none", "no_action"} /\ ~ret.success) =>
           ret.exit_code = 0 /\ ret.printed = 1

\* C26: every external command is bounded by its timeout: an invocation
\* inside run_command always gets out of it, never waits longer than the
\* timeout, and when the command hung until the timeout, run_command ends
\* with an error.
C26_BoundedCommands ==
    /\ (cmd.pc = "running") ~> (cmd.pc = "left")
    /\ [](cmd.pc = "running" => cmd.elapsed <= cmd.call.timeout)
    /\ []((cmd.pc = "left" /\ cmd.ending = "timed_out") => cmd.raised)

\* the (device, port) pairs handed out under key k: returned by an invocation,
\* persisted in the table
Handed(k) ==
    {<<d, Table[d][k]>> : d \in {x \in DOMAIN Table : HasKey(Table[x], k)}}
    \cup UNION {{<<d, inv[p].returned[d][k]>> :
                    d \in {x \in DOMAIN inv[p].returned : HasKey(inv[p].returned[x], k)}}
                : p \in LogProcs}

\* the (device, port) pairs the rendered configuration files carry
Rendered(directive) ==
    {<<d, conf_dir[d].text[directive].p>> :
        d \in {x \in Devices : conf_dir[x].exists /\ conf_dir[x].text # NoText}}

\* no port of the pairs belongs to two devices
OneDevicePerPort(pairs) == \A x, y \in pairs : x[2] = y[2] => x[1] = y[1]

\* C27: however two reconciliation invocations interleave, no httpPort and no
\* socksPort is handed out (returned in a result, persisted, or rendered into
\* a configuration file) to two different devices.
C27_PortsUnderOverlap ==
    /\ OneDevicePerPort(Handed("httpPort") \cup Rendered("proxy"))
    /\ OneDevicePerPort(Handed("socksPort") \cup Rendered("socks"))

\* the ports of a table entry, as (httpPort, socksPort), NoPort when missing
Ports(entry) == <<GetPort(entry, "httpPort"), GetPort(entry, "socksPort")>>

\* C28: update_proxy_config for a device never changes the httpPort or the
\* socksPort of any allocation and leaves every other device's allocation as
\* it was.
C28_UpdateKeepsPorts ==
    [][ret'.op = "update_proxy_config" =>
          \A d \in DOMAIN Table :
              /\ d \in DOMAIN Table'
              /\ Ports(Table'[d]) = Ports(Table[d])
              /\ d # ret'.dev => Table'[d] = Table[d]]_vars

\* C29: get_or_create_proxy_config never returns created = false with an
\* allocation that lacks httpPort or socksPort: for a device whose entry has
\* no such field it generates the ports and returns created = true (or fails
\* for want of a port).
C29_PartialEntryAllocated ==
    \A d \in DOMAIN Table, c \in Creds :
        ~Allocated(Table, d) =>
            \/ alloc_call(d, c, configs_file).raised
            \/ /\ alloc_call(d, c, configs_file).created
               /\ HasKey(alloc_call(d, c, configs_file).config, "httpPort")
               /\ HasKey(alloc_call(d, c, configs_file).config, "socksPort")

\* the values of a range that no allocation holds
FreeHttp == HttpRange \ UsedHttp(Table)
FreeSocks == SocksRange \ UsedSocks(Table)

\* C30: when every value of a port range but its configured end value is in
\* use, get_or_create_proxy_config for a new device succeeds and returns the
\* end value of that range.
C30_WholeRangeAllocatable ==
    \A d \in Devices \ DOMAIN Table, c \in Creds :
        /\ FreeHttp = {Lowest(HttpRange) + Cardinality(HttpRange) - 1} =>
              /\ ~alloc_call(d, c, configs_file).raised
              /\ alloc_call(d, c, configs_file).config["httpPort"] \in FreeHttp
        /\ FreeSocks = {Lowest(SocksRange) + Cardinality(SocksRange) - 1} =>
              /\ ~alloc_call(d, c, configs_file).raised
              /\ alloc_call(d, c, configs_file).config["socksPort"] \in FreeSocks

\* no reconciling invocation stands between its read and its write
AllFinished == \A p \in LogProcs : inv[p].pc = "idle"

\* C31: once two overlapping invocations that each read, modify and write
\* the allocation table have both finished, the persisted table holds the
\* allocation each of them made: none is dropped by the other's write.
C31_NoLostUpdate ==
    AllFinished =>
        \A p \in LogProcs : \A d \in DOMAIN inv[p].returned :
            /\ d \in DOMAIN Table
            /\ Ports(Table[d]) = Ports(inv[p].returned[d])

\* the helper processes start_tunnel spawned that are alive
LiveHelpers == alive \cap 1..spawned

\* the process ids the persisted tunnel table refers to
TrackedPids == {TunnelTable[t]["pid"] : t \in DOMAIN TunnelTable}

\* C32: however start_tunnel, stop_tunnel and get_all_tunnel_statuses
\* invocations overlap, once none is under way every helper process that was
\* spawned and is still alive is referred to by a record of the persisted
\* tunnel table.
C32_NoUntrackedHelper == AllFinished => LiveHelpers \subseteq TrackedPids

\* the users directive a rendered configuration carries for an allocation
UsersOf(entry) == <<Get(entry, "username"), "CL", Get(entry, "password")>>

\* C33: when update_proxy_config has changed the credentials of a device
\* whose proxy is running and has issued the restart, the rendered
\* configuration on disk carries the credentials of the persisted allocation.
C33_RestartUsesFreshConfig ==
    (ret.op = "update_proxy_config" /\ ret.success /\ ret.issued) =>
        /\ conf_dir[ret.dev].exists
        /\ conf_dir[ret.dev].text # NoText
        /\ conf_dir[ret.dev].text.users = UsersOf(Table[ret.dev])

\* what the installed snapshot's get_proxy_status answers for a connected
\* modem when the is-active query finds active exactly the services in active
StatusUnder(d, active) ==
    IF impl = "hilink" THEN get_proxy_status_hilink(d, active)
    ELSE get_proxy_status(d, "connected", active)

\* C34: whatever set of services the is-active query finds active,
\* get_proxy_status reports running for every connected device whose service
\* is in it, and reports stopped only for a service that is not in it.
C34_RunningWhenActive ==
    \A d \in Devices : \A active \in SUBSET Devices :
        /\ d \in active => StatusUnder(d, active) = "running"
        /\ StatusUnder(d, active) = "stopped" => d \notin active

\* the records of every tunnel identifier but tunnel_id are the same in both tables
SameOthers(tunnel_id, before, after) ==
    \A t \in TunnelIds \ {tunnel_id} :
        /\ t \in DOMAIN before <=> t \in DOMAIN after
        /\ t \in DOMAIN before => after[t] = before[t]

\* a tunnel invocation has ended in this step
TunnelEnded(op) == budget' < budget /\ ret'.op = op

C35_Frame ==
    /\ TunnelEnded("stop_tunnel") => SameOthers(ret'.dev, TunnelTable, TunnelTable')
    /\ (TunnelEnded("start_tunnel") /\ ret'.success) =>
           SameOthers(ret'.dev, TunnelTable, TunnelTable')
    /\ TunnelEnded("get_all_tunnel_statuses") =>
           \A t \in LiveIds : t \in DOMAIN TunnelTable' /\ TunnelTable'[t] = TunnelTable[t]

\* C35: stop_tunnel(tunnel_id) and a successful start_tunnel(tunnel_id) leave
\* the record of every other tunnel identifier as it was, and
\* get_all_tunnel_statuses keeps every record whose pid is alive, unaltered.
C35_OwnRecordOnly == [][C35_Frame]_vars

\* a stop_tunnel has removed the live record of one tunnel while the table
\* held the record of another, which is still there
C35_Witness ==
    /\ ret.op = "stop_tunnel" /\ ret.message = "Tunnel stopped."
    /\ DOMAIN TunnelTable = TunnelIds \ {ret.dev}
    /\ spawned = 2

====
